---- MODULE Spec2Model ----
(***************************************************************************)
(* goemon: a file-change-triggered task runner with a restart supervisor.  *)
(* The model follows src/goemon.go: the watch goroutine (watch, task,      *)
(* load), one goroutine per admitted command pipeline, the supervisor loop *)
(* of Run with its restart goroutine, and the managed process.             *)
(***************************************************************************)
EXTENDS Integers, Sequences, FiniteSets, Bags, TLC

(***************************************************************************)
(* Bounds of the model.                                                    *)
(***************************************************************************)
\* filesystem events the event source delivers to the watch loop
MaxEvents == 2
\* writes of the configuration file (each ends watch() and reloads)
MaxReloads == 1
\* process ids the operating system hands out to managed processes
MaxProcs == 2
\* characters of a pattern compiled on its own
MaxPattern == 3
\* characters of a path below the working directory matched on its own
MaxPath == 3

(***************************************************************************)
(* uint64 arithmetic (the active-task counter g.tasks), kept at its width: *)
(* a value is four 16-bit limbs, least significant first.                  *)
(***************************************************************************)
Limb == 2 ^ 16

U64Zero == <<0, 0, 0, 0>>

U64One == <<1, 0, 0, 0>>

\* ^uint64(0)
U64AllOnes == <<Limb - 1, Limb - 1, Limb - 1, Limb - 1>>

RECURSIVE AddLimbs(_, _, _, _)
AddLimbs(a, b, i, carry) ==
    IF i > 4 THEN <<>>
    ELSE LET s == a[i] + b[i] + carry
         IN  <<s % Limb>> \o AddLimbs(a, b, i + 1, s \div Limb)

\* atomic.AddUint64: addition modulo 2^64
AddUint64(a, b) == AddLimbs(a, b, 1, 0)

\* the value of a uint64 that fits one limb, -1 for anything larger
U64Small(u) == IF u[2] = 0 /\ u[3] = 0 /\ u[4] = 0 THEN u[1] ELSE -1

(***************************************************************************)
(* fsnotify.Op bits and bitwise AND on the five-bit operation sets.        *)
(***************************************************************************)
OpCreate == 1
OpWrite == 2
OpRemove == 4
OpRename == 8
OpChmod == 16

RECURSIVE BitAnd(_, _)
BitAnd(x, y) ==
    IF x = 0 \/ y = 0 THEN 0
    ELSE (x % 2) * (y % 2) + 2 * BitAnd(x \div 2, y \div 2)

RECURSIVE BitOr(_, _)
BitOr(x, y) ==
    IF x = 0 THEN y
    ELSE IF y = 0 THEN x
    ELSE (IF x % 2 = 1 \/ y % 2 = 1 THEN 1 ELSE 0) + 2 * BitOr(x \div 2, y \div 2)

\* strings.ToUpper(op) switched over fsnotify's names; 0 for an unknown name
OpBit(name) ==
    CASE name \in {"CREATE", "create", "Create"} -> OpCreate
      [] name \in {"WRITE", "write", "Write"}    -> OpWrite
      [] name \in {"REMOVE", "remove", "Remove"} -> OpRemove
      [] name \in {"RENAME", "rename", "Rename"} -> OpRename
      [] name \in {"CHMOD", "chmod", "Chmod"}    -> OpChmod
      [] OTHER -> 0

RECURSIVE OpsMask(_, _)
OpsMask(ops, acc) ==
    IF ops = <<>> THEN acc
    ELSE OpsMask(Tail(ops), BitOr(acc, OpBit(Head(ops))))

(***************************************************************************)
(* Inputs: events, patterns, configuration files.                          *)
(***************************************************************************)
\* a path or a pattern is the sequence of its characters
\* the working directory of the process, "/w"
Cwd == <<"/", "w">>

\* strings.Split(s, sep) for a one-character separator
RECURSIVE Split(_, _)
Split(s, sep) ==
    IF \A i \in DOMAIN s : s[i] # sep THEN <<s>>
    ELSE LET i == CHOOSE n \in DOMAIN s : s[n] = sep /\ \A m \in 1..(n - 1) : s[m] # sep
         IN  <<SubSeq(s, 1, i - 1)>> \o Split(SubSeq(s, i + 1, Len(s)), sep)

\* filepath.Clean on the elements of a rooted path: empty and "." elements
\* are dropped, ".." takes the element before it (none at the root)
RECURSIVE CleanElems(_, _)
CleanElems(elems, acc) ==
    IF elems = <<>> THEN acc
    ELSE LET e == Head(elems)
         IN  IF e = <<>> \/ e = <<".">> THEN CleanElems(Tail(elems), acc)
             ELSE IF e = <<".", ".">>
                  THEN CleanElems(Tail(elems),
                                  IF acc = <<>> THEN acc ELSE SubSeq(acc, 1, Len(acc) - 1))
             ELSE CleanElems(Tail(elems), Append(acc, e))

\* the elements of a rooted path joined again: "/" for none
RECURSIVE JoinElems(_)
JoinElems(elems) ==
    IF elems = <<>> THEN <<>> ELSE <<"/">> \o Head(elems) \o JoinElems(Tail(elems))

\* filepath.Abs on a unix system: a relative path is joined to the working
\* directory, and the result is cleaned
Abs(pat) ==
    LET rooted == IF pat # <<>> /\ pat[1] = "/" THEN pat ELSE Cwd \o <<"/">> \o pat
        elems == CleanElems(Split(rooted, "/"), <<>>)
    IN  IF elems = <<>> THEN <<"/">> ELSE JoinElems(elems)

\* the pieces of a regular expression compilePattern writes to its buffer; a
\* literal, written as the class of one character, is that character
TokBol == "BeginText"
TokEol == "EndText"
TokAlt == "Alternate"
TokSeg == "[^/]+"
TokAny == ".*"
TokNonSpace == "\\S"
Lit(c) == c

\* a nil *regexp.Regexp
NilRe == <<>>

\* the loop over the runes of one alternative (lines 98-122): the pieces
\* written, or NilRe at an invalid wildcard
RECURSIVE Runes(_, _, _)
Runes(rs, i, buf) ==
    IF i > Len(rs) THEN buf
    ELSE IF rs[i] = "/" THEN Runes(rs, i + 1, Append(buf, Lit("/")))
    ELSE IF rs[i] = "*"
         THEN IF i < Len(rs) /\ rs[i + 1] = "*"
              THEN IF i + 1 < Len(rs) /\ rs[i + 2] = "/"
                   THEN Runes(rs, i + 3, Append(buf, TokAny))
                   ELSE NilRe
              ELSE Runes(rs, i + 1, Append(buf, TokSeg))
    ELSE IF rs[i] = "?" THEN Runes(rs, i + 1, Append(buf, TokNonSpace))
    ELSE Runes(rs, i + 1, Append(buf, Lit(rs[i])))

\* the loop over the alternatives (lines 88-124): "^" before the first,
\* "$|" before every other, "$" after each
RECURSIVE Alternatives(_, _, _)
Alternatives(pats, n, buf) ==
    IF n > Len(pats) THEN buf
    ELSE LET pre == IF n = 1 THEN Append(buf, TokBol) ELSE buf \o <<TokEol, TokAlt>>
             body == Runes(Abs(pats[n]), 1, pre)
         IN  IF body = NilRe THEN NilRe
             ELSE Alternatives(pats, n + 1, Append(body, TokEol))

\* regexp.Compile of the buffer: the expression as its top-level alternatives
RegexpCompile(buf) == Split(buf, TokAlt)

\* compilePattern of a glob (a pattern that does not start with "%"): the
\* compiled expression, or NilRe with an error
compilePattern(pattern) ==
    LET buf == Alternatives(Split(pattern, "|"), 1, <<>>)
    IN  IF buf = NilRe THEN NilRe ELSE RegexpCompile(buf)

\* the characters \S does not match
Spaces == {" ", "\t", "\n"}

\* the pieces of one alternative from piece k on match file at position pos
\* (up to any later position: an expression is not anchored by itself)
RECURSIVE MatchHere(_, _, _, _)
MatchHere(alt, k, file, pos) ==
    IF k > Len(alt) THEN TRUE
    ELSE LET tok == alt[k]
             rest == Len(file) - pos + 1
         IN  IF tok = TokBol THEN pos = 1 /\ MatchHere(alt, k + 1, file, pos)
             ELSE IF tok = TokEol THEN rest = 0 /\ MatchHere(alt, k + 1, file, pos)
             ELSE IF tok = TokSeg
                  THEN \E n \in 1..rest :
                          /\ \A i \in pos..(pos + n - 1) : file[i] # "/"
                          /\ MatchHere(alt, k + 1, file, pos + n)
             ELSE IF tok = TokAny
                  THEN \E n \in 0..rest :
                          /\ \A i \in pos..(pos + n - 1) : file[i] # "\n"
                          /\ MatchHere(alt, k + 1, file, pos + n)
             ELSE IF tok = TokNonSpace
                  THEN /\ rest >= 1 /\ file[pos] \notin Spaces
                       /\ MatchHere(alt, k + 1, file, pos + 1)
             ELSE /\ rest >= 1 /\ file[pos] = tok
                  /\ MatchHere(alt, k + 1, file, pos + 1)

\* regexp.MatchString: some alternative matches somewhere in file
MatchString(re, file) ==
    \E a \in DOMAIN re : \E start \in 1..(Len(file) + 1) : MatchHere(re[a], 1, file, start)

\* paths of the watched tree
FileGo == Cwd \o <<"/", "a", ".", "g", "o">>
FileTxt == Cwd \o <<"/", "b", ".", "t", "x", "t">>

\* the events of the model: a path and the operation set it carries
Events == {[Name |-> FileGo, Op |-> OpWrite],
           [Name |-> FileGo, Op |-> BitOr(OpWrite, OpChmod)],
           [Name |-> FileTxt, Op |-> OpWrite]}

Nil == "nil"

RuleGo == [Match |-> <<"*", ".", "g", "o">>, Ignore |-> <<>>,
           Commands |-> <<"go build", ":restart">>, Ops |-> <<"write">>]

RuleAll == [Match |-> <<"*">>, Ignore |-> <<"*", ".", "g", "o">>,
            Commands |-> <<"make">>, Ops |-> <<>>]

\* the key is absent from the YAML document
NoKey == "<absent>"

FileOne == [readable |-> TRUE, command |-> "server", tasks |-> <<RuleGo>>]

FileTwo == [readable |-> TRUE, command |-> NoKey, tasks |-> <<RuleGo, RuleAll>>]

\* a read or parse failure of the configuration file
Unreadable == [readable |-> FALSE, command |-> NoKey, tasks |-> <<>>]

ConfigFiles == {FileOne, FileTwo, Unreadable}

\* the command line given to NewWithArgs, or none (New)
ArgsChoices == {<<>>}

(***************************************************************************)
(* State.                                                                  *)
(***************************************************************************)
VARIABLES
    Args,       \* g.Args: the managed command line
    conf,       \* g.conf: Command and Tasks (references into objs)
    objs,       \* the task objects allocated so far: fields of type task
    tasks,      \* g.tasks: the active-task counter, a uint64
    pcWatch,    \* position of the watch goroutine (watch, task, load)
    event,      \* the event g.task is dispatching
    idx,        \* g.task's position in its range over g.conf.Tasks
    pipes,      \* the pipeline goroutines alive, a bag of [t, pc, k, ran, failed]
    pcRun,      \* position of Run's own goroutine (the supervisor loop)
    restarts,   \* the restart goroutines alive, a bag of [pc, pid, err]
    errChan,    \* Run's errChan (capacity 1)
    sig,        \* Run's sig channel (capacity 1): an interrupt is pending
    cmd,        \* g.cmd: <<>> for nil, <<pid>> for a handle (pid 0: no Process)
    live,       \* the managed-process instances alive
    nEvents,    \* events delivered so far
    nReloads,   \* configuration-file writes so far
    hist,       \* history: per task object, events and launches of its admission
    settled,    \* history: the counter went 1 -> 0 and nothing was spawned since
    fsw,        \* g.fsw: "nil", or the watcher "open" or "closed"
    lrs,        \* reloads pushed to the livereload server g.lrs so far
    call        \* a function applied on its own: its arguments, position and result

vars == <<Args, conf, objs, tasks, pcWatch, event, idx, pipes, pcRun, restarts,
          errChan, sig, cmd, live, nEvents, nReloads, hist, settled, fsw, lrs, call>>

NoEvent == [Name |-> <<>>, Op |-> 0]

\* the watch goroutine's variables
watchVars == <<pcWatch, event, idx>>

\* the supervisor's variables and the managed process
superVars == <<pcRun, restarts, errChan, sig, cmd, live>>

\* the watcher, the livereload server and the function applied on its own
hostVars == <<fsw, lrs, call>>

\* no function is applied on its own while Run runs
NoCall == [fn |-> "none"]

(***************************************************************************)
(* load: read the file, unmarshal it over g.conf, compile every task.      *)
(***************************************************************************)
\* one task after the loop body of load (lines 281-314) has run on it
LoadTask(y) ==
    LET mre == IF y.Match = <<>> THEN NilRe ELSE compilePattern(y.Match)
        compiled == mre # NilRe
    IN  [Match |-> y.Match, Ignore |-> y.Ignore, Commands |-> y.Commands, Ops |-> y.Ops,
         mre |-> mre,
         ire |-> IF compiled /\ y.Ignore # <<>> THEN compilePattern(y.Ignore) ELSE NilRe,
         mops |-> IF compiled THEN OpsMask(y.Ops, 0) ELSE 0,
         hit |-> FALSE]

\* g.Args after load: derived from the configured command only when empty
LoadArgs(args, command) ==
    IF Len(args) = 0 /\ command # "" THEN <<"sh", "-c", command>> ELSE args

\* load of the file content y: the next values of conf, objs and Args
Load(y) ==
    IF ~y.readable
    THEN /\ conf' = [conf EXCEPT !.Tasks = <<>>]
         /\ UNCHANGED <<objs, Args, settled>>
    ELSE LET command == IF y.command = NoKey THEN conf.Command ELSE y.command
             n == Len(y.tasks)
         IN  /\ objs' = objs \o [i \in 1..n |-> LoadTask(y.tasks[i])]
             /\ conf' = [Command |-> command,
                         Tasks |-> [i \in 1..n |-> Len(objs) + i]]
             /\ Args' = LoadArgs(Args, command)

(***************************************************************************)
(* Rule matching.                                                          *)
(***************************************************************************)
\* strings.HasPrefix(event.Name, ":"): a synthesized, virtual event
IsVirtual(name) == name # <<>> /\ name[1] = ":"

\* a match that does not consult the ignore expression
matchNoIgnore(t, file) == t.mre # NilRe /\ MatchString(t.mre, file)

\* (t *task) match
match(t, file) ==
    (t.mre # NilRe /\ MatchString(t.mre, file)) /\ (t.ire = NilRe \/ ~MatchString(t.ire, file))

\* a comparison with the whole mask: the event must carry exactly its flags
matchOpEqual(t, op) == IF t.mops = 0 THEN TRUE ELSE op = t.mops

\* a test for a common flag: any flag of the mask will do
matchOpAny(t, op) == IF t.mops = 0 THEN TRUE ELSE BitAnd(op, t.mops) # 0

\* (t *task) matchOp
matchOp(t, op) == IF t.mops = 0 THEN TRUE ELSE BitAnd(op, t.mops) = op

\* the conditions of g.task under which a task is not skipped (lines 151-162)
Selected(t, ev) ==
    /\ IF IsVirtual(ev.Name) THEN t.Match = ev.Name ELSE match(t, ev.Name)
    /\ matchOp(t, ev.Op)

(***************************************************************************)
(* Initial state: a Goemon as New or NewWithArgs returns it, Run not yet   *)
(* begun.                                                                  *)
(***************************************************************************)
Constructed ==
    /\ Args \in ArgsChoices
    /\ conf = [Command |-> "", Tasks |-> <<>>]
    /\ objs = <<>>
    /\ tasks = U64Zero
    /\ pcWatch = "none"
    /\ event = NoEvent
    /\ idx = 0
    /\ pipes = EmptyBag
    /\ pcRun = "load"
    /\ restarts = EmptyBag
    /\ errChan = <<>>
    /\ sig = FALSE
    /\ cmd = <<>>
    /\ live = {}
    /\ nEvents = 0
    /\ nReloads = 0
    /\ hist = <<>>
    /\ settled = FALSE
    /\ fsw = "nil"
    /\ lrs = 0

Init == Constructed /\ call = NoCall

\* neither os.Exit nor a panic has ended the process: its goroutines exist
Alive == pcRun \notin {"exited", "panicked"}

\* history of a task object: since the admission that set hit, the events that
\* selected the task and the pipelines launched for it
NoHist == [events |-> 0, launches |-> 0]

\* the history grows with the task objects
HistLoad == hist' = hist \o [i \in 1..(Len(objs') - Len(objs)) |-> NoHist]

(***************************************************************************)
(* The watch goroutine: watch's event loop, g.task, and the reload.        *)
(***************************************************************************)
\* the task object g.task's range is at
CurTask == conf.Tasks[idx]

\* g.task's range from position i on: the first task the event selects, or
\* past the end (the continue statements of lines 151-162)
RECURSIVE Advance(_, _)
Advance(i, ev) ==
    IF i > Len(conf.Tasks) THEN i
    ELSE IF Selected(objs[conf.Tasks[i]], ev) THEN i
    ELSE Advance(i + 1, ev)

\* g.task goes on from position i: to the lock of the next selected task, or
\* back to the select of watch
Range(i, ev) ==
    LET j == Advance(i, ev)
    IN  IF j > Len(conf.Tasks)
        THEN /\ pcWatch' = "select"
             /\ event' = NoEvent
             /\ idx' = 0
        ELSE /\ pcWatch' = "lock"
             /\ event' = ev
             /\ idx' = j

\* watch, up to its event loop: a new watcher and the watch set
WatchSetup ==
    /\ Alive /\ pcWatch = "watch"
    /\ pcWatch' = "select"
    /\ fsw' = "open"
    /\ UNCHANGED <<Args, conf, objs, tasks, event, idx, pipes, superVars, nEvents,
                   nReloads, hist, settled, lrs, call>>

\* case event := <-g.fsw.Events, for an event of the watched tree: g.task(event)
WatchEvent(e) ==
    /\ Alive /\ pcWatch = "select" /\ fsw = "open"
    /\ nEvents < MaxEvents
    /\ nEvents' = nEvents + 1
    /\ Range(1, e)
    /\ UNCHANGED <<Args, conf, objs, tasks, pipes, superVars, nReloads, hist, settled, hostVars>>

\* case event := <-g.fsw.Events with event.Name == g.File: watch returns nil
WatchConfig ==
    /\ Alive /\ pcWatch = "select" /\ fsw = "open"
    /\ nReloads < MaxReloads
    /\ nReloads' = nReloads + 1
    /\ pcWatch' = "load"
    /\ UNCHANGED <<Args, conf, objs, tasks, event, idx, pipes, superVars, nEvents, hist, settled, hostVars>>

\* case err := <-g.fsw.Errors: logged, the loop continues
WatchError ==
    /\ Alive /\ pcWatch = "select" /\ fsw = "open"
    /\ UNCHANGED vars

\* the reload of Run's loop (line 334), then watch again
WatchLoad(y) ==
    /\ Alive /\ pcWatch = "load"
    /\ Load(y)
    /\ HistLoad
    /\ pcWatch' = "watch"
    /\ UNCHANGED <<tasks, event, idx, pipes, superVars, nEvents, nReloads, settled, hostVars>>

\* a single-flight test that admits whatever hit says
AdmitsAlways(t) == TRUE

\* the single-flight test (line 164): the task is admitted when hit is clear
Admits(t) == ~t.hit

\* a pipeline goroutine as the go statement creates it
NewPipe(t) == [t |-> t, pc |-> "inc", k |-> 0, ran |-> <<>>, failed |-> FALSE]

\* an event that finds hit set launches a pipeline all the same
TaskSkipLaunch ==
    /\ Alive /\ pcWatch = "lock"
    /\ ~Admits(objs[CurTask])
    /\ pipes' = pipes (+) SetToBag({NewPipe(CurTask)})
    /\ hist' = [hist EXCEPT ![CurTask].events = @ + 1, ![CurTask].launches = @ + 1]
    /\ Range(idx + 1, event)
    /\ UNCHANGED <<Args, conf, objs, tasks, superVars, nEvents, nReloads, settled, hostVars>>

\* t.mutex.Lock(); if t.hit { t.mutex.Unlock(); continue }: one step, the
\* mutex making the test and the set atomic among all users of t.hit
TaskSkip ==
    /\ Alive /\ pcWatch = "lock"
    /\ ~Admits(objs[CurTask])
    /\ hist' = [hist EXCEPT ![CurTask].events = @ + 1]
    /\ Range(idx + 1, event)
    /\ UNCHANGED <<Args, conf, objs, tasks, pipes, superVars, nEvents, nReloads, settled, hostVars>>

\* t.mutex.Lock(); the test passes; t.hit = true; t.mutex.Unlock();
\* go func(name string, t *task) {...}(event.Name, t)
TaskAdmit ==
    /\ Alive /\ pcWatch = "lock"
    /\ Admits(objs[CurTask])
    /\ objs' = [objs EXCEPT ![CurTask].hit = TRUE]
    /\ pipes' = pipes (+) SetToBag({NewPipe(CurTask)})
    /\ hist' = [hist EXCEPT ![CurTask] = [events |-> 1, launches |-> 1]]
    /\ Range(idx + 1, event)
    /\ UNCHANGED <<Args, conf, tasks, superVars, nEvents, nReloads, settled, hostVars>>

(***************************************************************************)
(* A pipeline goroutine (lines 171-191).                                   *)
(***************************************************************************)
Replace(p, q) == (pipes (-) SetToBag({p})) (+) SetToBag({q})

\* the loop over t.Commands at command k: the next command, or past the loop
AtCommand(p, k) ==
    IF k <= Len(objs[p.t].Commands) THEN [p EXCEPT !.pc = "cmd", !.k = k]
    ELSE [p EXCEPT !.pc = "lock"]

\* command k has run and returned ok: p.ran lists the commands run so far
Ran(p, ok) == [p EXCEPT !.ran = Append(@, p.k), !.failed = ~ok]

\* a break that leaves the switch only: the loop goes on after a failure
AfterCommandNoBreak(p, ok) == AtCommand(Ran(p, ok), p.k + 1)

\* a failure that leaves the goroutine's body early: hit is not cleared
AfterCommandSkipsClear(p, ok) ==
    IF ok THEN AtCommand(Ran(p, ok), p.k + 1) ELSE [Ran(p, ok) EXCEPT !.pc = "dec"]

\* where the loop goes after command k returned ok: on, or break loopCommand
AfterCommand(p, ok) ==
    IF ok THEN AtCommand(Ran(p, ok), p.k + 1) ELSE [Ran(p, ok) EXCEPT !.pc = "lock"]

\* a pipeline that starts without counting itself
PipeIncForgotten(p) ==
    /\ Alive /\ p.pc = "inc"
    /\ pipes' = Replace(p, AtCommand(p, 1))
    /\ UNCHANGED <<Args, conf, objs, tasks, watchVars, superVars, nEvents, nReloads, hist,
                   settled, hostVars>>

\* atomic.AddUint64(&g.tasks, 1)
PipeInc(p) ==
    /\ Alive /\ p.pc = "inc"
    /\ tasks' = AddUint64(tasks, U64One)
    /\ pipes' = Replace(p, AtCommand(p, 1))
    /\ settled' = FALSE
    /\ UNCHANGED <<Args, conf, objs, watchVars, superVars, nEvents, nReloads, hist, hostVars>>

\* one command of the loop: internalCommand or externalCommand returns ok
PipeCommand(p, ok) ==
    /\ Alive /\ p.pc = "cmd"
    /\ pipes' = Replace(p, AfterCommand(p, ok))
    /\ UNCHANGED <<Args, conf, objs, tasks, watchVars, superVars, nEvents, nReloads, hist, settled, hostVars>>

\* t.mutex.Lock(); t.hit = false; t.mutex.Unlock()
PipeClear(p) ==
    /\ Alive /\ p.pc = "lock"
    /\ objs' = [objs EXCEPT ![p.t].hit = FALSE]
    /\ pipes' = Replace(p, [p EXCEPT !.pc = "dec", !.k = 0, !.ran = <<>>, !.failed = FALSE])
    /\ hist' = [hist EXCEPT ![p.t] = NoHist]
    /\ UNCHANGED <<Args, conf, tasks, watchVars, superVars, nEvents, nReloads, settled, hostVars>>

\* atomic.AddUint64(&g.tasks, ^uint64(0)); the goroutine ends
PipeDec(p) ==
    /\ Alive /\ p.pc = "dec"
    /\ tasks' = AddUint64(tasks, U64AllOnes)
    /\ pipes' = pipes (-) SetToBag({p})
    /\ settled' = (tasks' = U64Zero)
    /\ UNCHANGED <<Args, conf, objs, watchVars, superVars, nEvents, nReloads, hist, hostVars>>

(***************************************************************************)
(* Run: the first load, the goroutines it starts, the supervisor loop.     *)
(***************************************************************************)
\* err := g.load(), go watch loop, then the test of len(g.Args)
RunLoad(y) ==
    /\ pcRun = "load"
    /\ Load(y)
    /\ HistLoad
    /\ pcWatch' = "watch"
    /\ pcRun' = IF Len(Args') > 0 THEN "check" ELSE "returned"
    /\ UNCHANGED <<tasks, event, idx, pipes, restarts, errChan, sig, cmd, live, nEvents,
                   nReloads, settled, hostVars>>

\* if atomic.LoadUint64(&g.tasks) > 0 { time.Sleep(time.Second); continue }
RunPoll ==
    /\ pcRun = "check"
    /\ tasks # U64Zero
    /\ UNCHANGED vars

\* a restart goroutine as the go statement of line 364 creates it
NewRestart == [pc |-> "restart", pid |-> 0]

\* a supervisor that starts a restart and does not wait for it in the select
RunRestartNoWait ==
    /\ pcRun = "check"
    /\ tasks = U64Zero
    /\ restarts' = restarts (+) SetToBag({NewRestart})
    /\ UNCHANGED <<Args, conf, objs, tasks, watchVars, pipes, pcRun, errChan, sig, cmd, live,
                   nEvents, nReloads, hist, settled, hostVars>>

\* a supervisor whose test of the counter is inverted
RunRestartInverted ==
    /\ pcRun = "check"
    /\ tasks # U64Zero
    /\ restarts' = restarts (+) SetToBag({NewRestart})
    /\ pcRun' = "select"
    /\ UNCHANGED <<Args, conf, objs, tasks, watchVars, pipes, errChan, sig, cmd, live,
                   nEvents, nReloads, hist, settled, hostVars>>

\* the counter read zero: go func() { errChan <- g.restart() }(), then the select
RunRestart ==
    /\ pcRun = "check"
    /\ tasks = U64Zero
    /\ restarts' = restarts (+) SetToBag({NewRestart})
    /\ pcRun' = "select"
    /\ UNCHANGED <<Args, conf, objs, tasks, watchVars, pipes, errChan, sig, cmd, live,
                   nEvents, nReloads, hist, settled, hostVars>>

\* case err := <-errChan: logged, a second's sleep on an error, the loop again
RunErr ==
    /\ pcRun = "select"
    /\ errChan # <<>>
    /\ errChan' = Tail(errChan)
    /\ pcRun' = "check"
    /\ UNCHANGED <<Args, conf, objs, tasks, watchVars, pipes, restarts, sig, cmd, live,
                   nEvents, nReloads, hist, settled, hostVars>>

\* g.terminate: the instances alive once the process behind handle c is
\* stopped; an absent handle or process is a no-op
terminate(c, l) == IF c # <<>> THEN l \ {c[1]} ELSE l

\* case <-sig: g.terminate(nil)
RunSig ==
    /\ pcRun = "select"
    /\ sig
    /\ sig' = FALSE
    /\ live' = terminate(cmd, live)
    /\ pcRun' = "exit"
    /\ UNCHANGED <<Args, conf, objs, tasks, watchVars, pipes, restarts, errChan, cmd,
                   nEvents, nReloads, hist, settled, hostVars>>

\* os.Exit(0): the process and all its goroutines are gone
RunExit ==
    /\ pcRun = "exit"
    /\ pcRun' = "exited"
    /\ pcWatch' = "none"
    /\ event' = NoEvent
    /\ idx' = 0
    /\ pipes' = EmptyBag
    /\ restarts' = EmptyBag
    /\ UNCHANGED <<Args, conf, objs, tasks, errChan, sig, cmd, live, nEvents, nReloads,
                   hist, settled, hostVars>>

\* an interrupt signal arrives; signal.Notify drops it when sig is full
Interrupt ==
    /\ pcRun \in {"check", "select"}
    /\ ~sig
    /\ sig' = TRUE
    /\ UNCHANGED <<Args, conf, objs, tasks, watchVars, pipes, pcRun, restarts, errChan, cmd,
                   live, nEvents, nReloads, hist, settled, hostVars>>

(***************************************************************************)
(* The restart goroutine: g.restart, then the send on errChan.             *)
(***************************************************************************)
ReplaceRestart(r, q) == (restarts (-) SetToBag({r})) (+) SetToBag({q})

\* the send on errChan, which ends the goroutine
SendErr(r, err) ==
    /\ Len(errChan) < 1
    /\ errChan' = Append(errChan, err)
    /\ restarts' = restarts (-) SetToBag({r})

\* restart up to its spawn: return nil without a command line, else
\* g.terminate(nil) (line 133)
RestartTerminate(r) ==
    /\ Alive /\ r.pc = "restart"
    /\ IF Len(Args) = 0
       THEN /\ SendErr(r, Nil)
            /\ UNCHANGED live
       ELSE /\ live' = terminate(cmd, live)
            /\ restarts' = ReplaceRestart(r, [r EXCEPT !.pc = "spawn"])
            /\ UNCHANGED errChan
    /\ UNCHANGED <<Args, conf, objs, tasks, watchVars, pipes, pcRun, sig, cmd,
                   nEvents, nReloads, hist, settled, hostVars>>

\* the process ids free for a new instance
FreePids == (1..MaxProcs) \ live

\* g.spawn starts the command: a new instance behind g.cmd, and the goroutine
\* waits for it to exit
RestartSpawn(r) ==
    /\ Alive /\ r.pc = "spawn"
    /\ FreePids # {}
    /\ LET pid == CHOOSE n \in FreePids : \A m \in FreePids : n <= m
       IN  /\ live' = live \cup {pid}
           /\ cmd' = <<pid>>
           /\ restarts' = ReplaceRestart(r, [r EXCEPT !.pc = "wait", !.pid = pid])
    /\ settled' = FALSE
    /\ UNCHANGED <<Args, conf, objs, tasks, watchVars, pipes, pcRun, errChan, sig,
                   nEvents, nReloads, hist, hostVars>>

\* g.spawn fails to start the command: a handle without a process, an error
RestartSpawnFail(r) ==
    /\ Alive /\ r.pc = "spawn"
    /\ cmd' = <<0>>
    /\ SendErr(r, "error")
    /\ settled' = FALSE
    /\ UNCHANGED <<Args, conf, objs, tasks, watchVars, pipes, pcRun, sig, live,
                   nEvents, nReloads, hist, hostVars>>

\* the instance has exited: g.spawn returns its status, sent on errChan
RestartWait(r, err) ==
    /\ Alive /\ r.pc = "wait"
    /\ r.pid \notin live
    /\ SendErr(r, err)
    /\ UNCHANGED <<Args, conf, objs, tasks, watchVars, pipes, pcRun, sig, cmd, live,
                   nEvents, nReloads, hist, settled, hostVars>>

\* the managed process exits of its own accord
ProcExit(pid) ==
    /\ pid \in live
    /\ \E r \in BagToSet(restarts) : r.pc = "wait" /\ r.pid = pid
    /\ live' = live \ {pid}
    /\ UNCHANGED <<Args, conf, objs, tasks, watchVars, pipes, pcRun, restarts, errChan, sig,
                   cmd, nEvents, nReloads, hist, settled, hostVars>>

Next ==
    \/ \E y \in ConfigFiles : RunLoad(y)
    \/ RunPoll
    \/ RunRestart
    \/ RunErr
    \/ RunSig
    \/ RunExit
    \/ Interrupt
    \/ \E r \in BagToSet(restarts) : RestartTerminate(r)
    \/ \E r \in BagToSet(restarts) : RestartSpawn(r)
    \/ \E r \in BagToSet(restarts) : RestartSpawnFail(r)
    \/ \E r \in BagToSet(restarts), err \in {Nil, "error"} : RestartWait(r, err)
    \/ \E pid \in live : ProcExit(pid)
    \/ WatchSetup
    \/ \E e \in Events : WatchEvent(e)
    \/ WatchConfig
    \/ WatchError
    \/ \E y \in ConfigFiles : WatchLoad(y)
    \/ TaskSkip
    \/ TaskAdmit
    \/ \E p \in BagToSet(pipes) : PipeInc(p)
    \/ \E p \in BagToSet(pipes), ok \in BOOLEAN : PipeCommand(p, ok)
    \/ \E p \in BagToSet(pipes) : PipeClear(p)
    \/ \E p \in BagToSet(pipes) : PipeDec(p)

Spec == Init /\ [][Next]_vars

\* Scheduling: every goroutine that can take a step takes one in the end, a
\* command that was started returns, and a select with a ready case proceeds.
\* Nothing obliges the environment: file events, configuration changes,
\* watcher errors, interrupts and the exit of the managed process may never
\* come.
Fairness ==
    /\ WF_vars(WatchSetup)
    /\ WF_vars(\E y \in ConfigFiles : WatchLoad(y))
    /\ WF_vars(TaskSkip)
    /\ WF_vars(TaskAdmit)
    /\ WF_vars(\E p \in BagToSet(pipes) : PipeInc(p))
    /\ WF_vars(\E p \in BagToSet(pipes), ok \in BOOLEAN : PipeCommand(p, ok))
    /\ WF_vars(\E p \in BagToSet(pipes) : PipeClear(p))
    /\ WF_vars(\E p \in BagToSet(pipes) : PipeDec(p))
    /\ WF_vars(RunRestart)
    /\ WF_vars(RunErr)
    /\ WF_vars(RunSig)
    /\ WF_vars(RunExit)
    /\ WF_vars(\E r \in BagToSet(restarts) : RestartTerminate(r))
    /\ WF_vars(\E r \in BagToSet(restarts) : RestartSpawn(r) \/ RestartSpawnFail(r))
    /\ WF_vars(\E r \in BagToSet(restarts), err \in {Nil, "error"} : RestartWait(r, err))

FairSpec == Init /\ [][Next]_vars /\ Fairness

(***************************************************************************)
(* The host program: it holds the *Goemon that New returned and may call   *)
(* Terminate on it at any time, from a goroutine of its own.               *)
(***************************************************************************)
\* Terminate (lines 384-396): the listener g.lrc is nil here; the watcher is
\* closed if there is one (a closed watcher delivers no event of the tree);
\* g.cmd.Process dereferences g.cmd, which is nil until the first spawn: a
\* nil pointer dereference, the panic ends the process
Terminate ==
    /\ Alive
    /\ fsw' = IF fsw = "nil" THEN fsw ELSE "closed"
    /\ IF cmd = <<>>
       THEN /\ pcRun' = "panicked"
            /\ pcWatch' = "none"
            /\ event' = NoEvent
            /\ idx' = 0
            /\ pipes' = EmptyBag
            /\ restarts' = EmptyBag
            /\ UNCHANGED live
       ELSE /\ live' = IF cmd[1] # 0 THEN terminate(cmd, live) ELSE live
            /\ UNCHANGED <<pcRun, watchVars, pipes, restarts>>
    /\ UNCHANGED <<Args, conf, objs, tasks, errChan, sig, cmd, nEvents, nReloads, hist,
                   settled, lrs, call>>

HostNext == Next \/ Terminate

HostSpec == Init /\ [][HostNext]_vars

(***************************************************************************)
(* matchOp applied on its own: a task's ops are loaded into its mask, then *)
(* the mask is tested against the operation set of an event.               *)
(***************************************************************************)
\* the five flags of fsnotify.Op
OpFlags == {OpCreate, OpWrite, OpRemove, OpRename, OpChmod}

\* the flags set in x
Flags(x) == {b \in OpFlags : (x \div b) % 2 = 1}

\* every operation set and every mask over the five flags
OpSets == 0..(2 * OpChmod - 1)

\* the ops list of a configuration file that names the flags of m
OpsOf(m) ==
    LET pick(b, name) == IF b \in Flags(m) THEN <<name>> ELSE <<>>
    IN  pick(OpCreate, "create") \o pick(OpWrite, "write") \o pick(OpRemove, "remove")
            \o pick(OpRename, "rename") \o pick(OpChmod, "chmod")

OpInit ==
    /\ Constructed
    /\ call \in {[fn |-> "matchOp", pc |-> "load", ops |-> OpsOf(m), op |-> o,
                   mops |-> 0, out |-> FALSE] : m \in OpSets, o \in OpSets}

\* load's loop over t.Ops (lines 298-313)
OpLoad ==
    /\ call.fn = "matchOp" /\ call.pc = "load"
    /\ call' = [call EXCEPT !.mops = OpsMask(call.ops, 0), !.pc = "matchOp"]
    /\ UNCHANGED <<Args, conf, objs, tasks, watchVars, pipes, superVars, nEvents, nReloads,
                   hist, settled, fsw, lrs>>

\* t.matchOp(event.Op)
OpMatch ==
    /\ call.fn = "matchOp" /\ call.pc = "matchOp"
    /\ call' = [call EXCEPT !.out = matchOp([mops |-> call.mops], call.op), !.pc = "done"]
    /\ UNCHANGED <<Args, conf, objs, tasks, watchVars, pipes, superVars, nEvents, nReloads,
                   hist, settled, fsw, lrs>>

OpNext == OpLoad \/ OpMatch

OpSpec == OpInit /\ [][OpNext]_vars

(***************************************************************************)
(* compilePattern and match applied on their own: a glob is compiled, then *)
(* the expression is matched against a path of the watched tree.           *)
(***************************************************************************)
\* the sequences over chars of 1 to n characters
RECURSIVE SeqsUpTo(_, _)
SeqsUpTo(chars, n) ==
    IF n = 0 THEN {}
    ELSE LET shorter == SeqsUpTo(chars, n - 1)
         IN  {<<c>> : c \in chars} \cup shorter \cup {Append(q, c) : q \in shorter, c \in chars}

\* globs: names, the wildcard of one path element, alternatives
Patterns == SeqsUpTo({"a", "b", "*", "|"}, MaxPattern)

\* the paths fsnotify reports: cleaned paths below the working directory
Paths == {f \in {Cwd \o <<"/">> \o q : q \in SeqsUpTo({"a", "b", "w", "/"}, MaxPath)} :
             Abs(f) = f}

PatInit ==
    /\ Constructed
    /\ call \in {[fn |-> "match", pc |-> "compile", pattern |-> p, file |-> f,
                   re |-> NilRe, out |-> FALSE] : p \in Patterns, f \in Paths}

\* t.mre, err = compilePattern(t.Match) in load (line 285)
PatCompile ==
    /\ call.fn = "match" /\ call.pc = "compile"
    /\ call' = [call EXCEPT !.re = compilePattern(call.pattern), !.pc = "match"]
    /\ UNCHANGED <<Args, conf, objs, tasks, watchVars, pipes, superVars, nEvents, nReloads,
                   hist, settled, fsw, lrs>>

\* t.match(file) of a task without an ignore pattern
PatMatch ==
    /\ call.fn = "match" /\ call.pc = "match"
    /\ call' = [call EXCEPT !.out = match([mre |-> call.re, ire |-> NilRe], call.file),
                            !.pc = "done"]
    /\ UNCHANGED <<Args, conf, objs, tasks, watchVars, pipes, superVars, nEvents, nReloads,
                   hist, settled, fsw, lrs>>

PatNext == PatCompile \/ PatMatch

PatSpec == PatInit /\ [][PatNext]_vars

(***************************************************************************)
(* Properties.                                                             *)
(***************************************************************************)
RECURSIVE SumCopies(_, _)
SumCopies(S, B) ==
    IF S = {} THEN 0
    ELSE LET x == CHOOSE y \in S : TRUE
         IN  CopiesIn(x, B) + SumCopies(S \ {x}, B)

\* the pipeline goroutines of task object t at one of the positions pcs
PipesAt(t, pcs) == SumCopies({p \in BagToSet(pipes) : p.t = t /\ p.pc \in pcs}, pipes)

\* the pipeline goroutines at one of the positions pcs, of any task
AllPipesAt(pcs) == SumCopies({p \in BagToSet(pipes) : p.pc \in pcs}, pipes)

\* a pipeline is executing from its launch until it has cleared hit
ExecPcs == {"inc", "cmd", "lock"}

\* a pipeline is counted from its increment to its decrement
CountedPcs == {"cmd", "lock", "dec"}

\* the task objects whose hit flag is set
InFlight == {t \in DOMAIN objs : objs[t].hit}

\* C1: single-flight mutual exclusion. For every Rule (task object), in every
\* interleaving of dispatched events and pipeline completions, at most one
\* pipeline of that Rule is executing: no second pipeline starts before the
\* first has cleared hit.
SingleFlight == \A t \in DOMAIN objs : PipesAt(t, ExecPcs) <= 1

\* a second event selected the Rule while its pipeline is running a command
SingleFlightWitness ==
    \E t \in DOMAIN objs : PipesAt(t, {"cmd"}) = 1 /\ hist[t].events >= 2

\* C2: restart gating. The supervisor never spawns a managed-process instance
\* at a moment when the active-task counter is greater than zero.
SpawnGated == [][(live' \ live # {}) => tasks = U64Zero]_vars

\* C3: a Rule whose hit flag is set is already counted: the counter is at
\* least the number of Rules in flight, so the supervisor cannot read zero
\* while an admitted pipeline has not finished.
InFlightCounted == Alive => U64Small(tasks) >= Cardinality(InFlight)

\* C4: drop, not queue. However many events select a Rule while its pipeline
\* runs, exactly one pipeline is launched for them; the events that found hit
\* set launch none, neither at once nor when the running pipeline completes.
DropNotQueue ==
    Alive => \A t \in DOMAIN objs :
        /\ hist[t].launches = PipesAt(t, ExecPcs)
        /\ objs[t].hit => hist[t].launches = 1 /\ hist[t].events >= 1
        /\ ~objs[t].hit => hist[t] = NoHist

\* MaxEvents events selected the Rule during one pipeline, which is the only one
DropNotQueueWitness ==
    \E t \in DOMAIN objs :
        /\ hist[t].events = MaxEvents /\ MaxEvents >= 2
        /\ hist[t].launches = 1
        /\ PipesAt(t, {"lock"}) = 1

\* C5: pipeline order and short-circuit. A pipeline runs the Rule's commands
\* strictly in list order, and once a command has failed it runs no later one.
PipelineOrder ==
    \A p \in BagToSet(pipes) :
        /\ \A i \in DOMAIN p.ran : p.ran[i] = i
        /\ p.pc = "cmd" => ~p.failed /\ p.k = Len(p.ran) + 1
        /\ p.failed => p.pc = "lock"

\* commands [A, B]: A ran and failed, the loop is left, B did not run
PipelineOrderWitness ==
    \E p \in BagToSet(pipes) :
        /\ Len(objs[p.t].Commands) = 2
        /\ p.failed /\ p.ran = <<1>> /\ p.pc = "lock"

\* the task objects the loads can create: every load makes at most two
TaskIds == 1..(2 * (MaxReloads + 1))

\* one step of the completion bookkeeping, as seen from outside the goroutines:
\* a goroutine comes to its decrement only in the step that clears its task's
\* hit, and hit falls only in such a step, which leaves the counter alone; the
\* counter falls only by one, in a step that ends one goroutine waiting at its
\* decrement; a goroutine ends in no other way
BookkeepingStep ==
    /\ \A t \in DOMAIN objs :
          LET cleared == objs[t].hit /\ ~objs'[t].hit
              arrived == PipesAt(t, {"dec"})' > PipesAt(t, {"dec"})
          IN  /\ cleared <=> arrived
              /\ cleared =>
                    /\ PipesAt(t, {"dec"})' = PipesAt(t, {"dec"}) + 1
                    /\ PipesAt(t, {"lock"})' = PipesAt(t, {"lock"}) - 1
                    /\ tasks' = tasks
    /\ (tasks' # tasks /\ tasks' # AddUint64(tasks, U64One)) =>
          /\ AddUint64(tasks', U64One) = tasks
          /\ objs' = objs
          /\ AllPipesAt({"dec"})' = AllPipesAt({"dec"}) - 1
          /\ AllPipesAt(ExecPcs)' = AllPipesAt(ExecPcs)
    /\ (Alive' /\ BagCardinality(pipes') < BagCardinality(pipes)) =>
          /\ BagCardinality(pipes') = BagCardinality(pipes) - 1
          /\ AddUint64(tasks', U64One) = tasks

\* C6: completion bookkeeping is unconditional and ordered. Whether all its
\* commands succeeded or one failed, a pipeline clears its Rule's hit and then
\* decrements the counter exactly once, in that order; commands terminating,
\* every admitted pipeline leaves its Rule able to fire again and then takes
\* its one count off the counter, unless the process exits first.
BookkeepingCompletes ==
    /\ [][BookkeepingStep]_vars
    /\ \A t \in TaskIds :
          (t \in DOMAIN objs /\ objs[t].hit)
              ~> ((t \in DOMAIN objs /\ ~objs[t].hit) \/ ~Alive)
    /\ \A t \in TaskIds :
          (PipesAt(t, {"dec"}) > 0) ~> (PipesAt(t, {"dec"}) = 0 \/ ~Alive)

\* a pipeline has left its commands and cleared hit, and is about to decrement
\* the counter, which still counts it: the Rule can fire again already
BookkeepingCompletesWitness ==
    \E p \in BagToSet(pipes) :
        /\ p.pc = "dec"
        /\ ~objs[p.t].hit /\ PipesAt(p.t, ExecPcs) = 0
        /\ U64Small(tasks) = 1

\* C7: the active-task counter never exceeds the number of Rules whose hit
\* flag is set (with a single Rule, never exceeds 1).
CounterAtMostInFlight == Alive => U64Small(tasks) <= Cardinality(InFlight)

\* C8: the counter never wraps below zero: it equals the number of pipeline
\* goroutines between their increment and their decrement, over dispatches,
\* completions and reloads, and is zero when there is none.
CounterExact == Alive => U64Small(tasks) = AllPipesAt(CountedPcs)

\* a pipeline of a discarded configuration is about to decrement after the
\* reload, while a pipeline of the new configuration is counted too
CounterExactWitness ==
    /\ nReloads >= 1 /\ pcWatch = "select"
    /\ \E p \in BagToSet(pipes) :
          p.pc = "dec" /\ \A i \in DOMAIN conf.Tasks : conf.Tasks[i] # p.t
    /\ \E p \in BagToSet(pipes) :
          p.pc = "cmd" /\ \E i \in DOMAIN conf.Tasks : conf.Tasks[i] = p.t
    /\ U64Small(tasks) = 2

\* C9: at most one managed-process instance is alive at any time, no two
\* terminate-then-spawn cycles overlap, and a cycle spawns only once the
\* previous instance is gone.
AtMostOneInstance ==
    /\ Cardinality(live) <= 1
    /\ BagCardinality(restarts) <= 1
    /\ \A r \in BagToSet(restarts) : r.pc = "spawn" => live = {}

\* a later cycle: the previous instance is gone, its handle is still in g.cmd,
\* and the cycle has terminated and is about to spawn
AtMostOneInstanceWitness ==
    /\ cmd = <<1>> /\ live = {}
    /\ \E r \in BagToSet(restarts) : r.pc = "spawn"

InterruptLeavesNone == pcRun = "exited" => live = {}

\* C12: idempotent terminate. Terminate on a supervisor whose process handle
\* is absent (never spawned, or already terminated) is a no-op and not an
\* error: no call of Terminate ends in a failure.
TerminateNoError == pcRun # "panicked"

\* matchOp has returned for the mask loaded from call.ops and the event's
\* operation set call.op
OpDone == call.fn = "matchOp" /\ call.pc = "done"

\* the flags the ops list of the Rule names
MaskSet == {OpBit(call.ops[i]) : i \in DOMAIN call.ops}

OpNonEmptySubset ==
    OpDone =>
        (call.out <=> (MaskSet = {} \/ (Flags(call.op) # {} /\ Flags(call.op) \subseteq MaskSet)))

\* C18, amended: matchOp(op) is true exactly when the Rule's mask is empty, or
\* every flag op carries is in the mask; an event carrying no operation flag
\* matches every mask.
OpSubset ==
    OpDone => (call.out <=> (MaskSet = {} \/ Flags(call.op) \subseteq MaskSet))

\* mask {Write}, an event with no operation flag: a match
OpSubsetWitness ==
    OpDone /\ MaskSet = {OpWrite} /\ Flags(call.op) = {} /\ call.out

\* match has returned for the expression compiled from call.pattern and the
\* path call.file
PatDone == call.fn = "match" /\ call.pc = "done"

\* the alternatives of the pattern under test
PatAlts == Split(call.pattern, "|")

\* alternative q is a plain name: not empty, no wildcard in it
IsName(q) == q # <<>> /\ \A i \in DOMAIN q : q[i] # "*"

\* C14: anchoring. In a glob with several alternatives separated by "|",
\* every alternative is anchored at both the start and the end of the full
\* path: a pattern of plain names such as "a|b" matches exactly the resolved
\* paths of its names, never a longer path that contains or ends with one.
AnchoredAlternatives ==
    (PatDone /\ call.re # NilRe /\ \A i \in DOMAIN PatAlts : IsName(PatAlts[i])) =>
        (call.out <=> \E i \in DOMAIN PatAlts : call.file = Abs(PatAlts[i]))

\* the glob pattern accepts the path: it compiles, and its expression matches
Accepts(pattern, file) ==
    pattern # <<>> /\ compilePattern(pattern) # NilRe
        /\ MatchString(compilePattern(pattern), file)

\* all the positions of a pipeline goroutine
AllPcs == {"inc", "cmd", "lock", "dec"}

\* C15: ignore precedence. For every filesystem event and every Rule with an
\* ignore pattern, if the event's path is accepted by both the Rule's match
\* pattern and its ignore pattern, dispatch starts no pipeline of that Rule
\* for that event.
IgnorePrecedence ==
    [][\A t \in DOMAIN objs :
          (PipesAt(t, {"inc"})' > PipesAt(t, {"inc"}) /\ ~IsVirtual(event.Name)) =>
              ~(Accepts(objs[t].Match, event.Name) /\ Accepts(objs[t].Ignore, event.Name))]_vars

\* the one event so far was of a path that a Rule's match and ignore patterns
\* both accept: dispatch is over, another Rule fired, this one did not
IgnorePrecedenceWitness ==
    /\ nEvents = 1 /\ nReloads = 0 /\ pcWatch = "select"
    /\ \E i, j \in DOMAIN conf.Tasks :
          /\ objs[conf.Tasks[i]].hit /\ Accepts(objs[conf.Tasks[i]].Match, FileGo)
          /\ Accepts(objs[conf.Tasks[j]].Match, FileGo)
          /\ Accepts(objs[conf.Tasks[j]].Ignore, FileGo)
          /\ ~objs[conf.Tasks[j]].hit /\ PipesAt(conf.Tasks[j], AllPcs) = 0

\* a pipeline goroutine has ended in this step, the process going on
PipelineCompletes == Alive' /\ BagCardinality(pipes') < BagCardinality(pipes)

\* C16: push notification. After every completed command pipeline, whatever
\* the Rule and whatever the outcome, the reload trigger of the livereload
\* server is invoked exactly once.
PushAfterPipeline == [][PipelineCompletes => lrs' = lrs + 1]_vars

\* the managed command a configuration file specifies: none without the key
FileCommand(y) == IF y.command = NoKey THEN "" ELSE y.command

\* C17: wholesale reload. After every successful load or reload of a file the
\* effective configuration is exactly what that file specifies: its command,
\* the command line derived from it, and its rules; nothing of the previous
\* configuration survives.
WholesaleReload ==
    [][\A y \in ConfigFiles :
          (y.readable /\ (RunLoad(y) \/ WatchLoad(y))) =>
              /\ conf'.Command = FileCommand(y)
              /\ Args' = LoadArgs(<<>>, FileCommand(y))
              /\ Len(conf'.Tasks) = Len(y.tasks)
              /\ \A i \in DOMAIN y.tasks : objs'[conf'.Tasks[i]] = LoadTask(y.tasks[i])]_vars

\* C19: reload does not lose the rules. If a reload fails, the old Rule set
\* remains in force rather than being replaced by an empty one.
FailedReloadKeepsRules == [][WatchLoad(Unreadable) => conf'.Tasks = conf.Tasks]_vars

\* two task objects made from the same rule of a configuration file
SameRule(t, u) == objs[t].Match = objs[u].Match /\ objs[t].Commands = objs[u].Commands

\* C20: single-flight across hot reload. If a pipeline of a rule is still
\* running when the configuration is reloaded with the same rule, no second
\* pipeline of that rule starts before the first has completed: at most one
\* pipeline per configured match pattern is executing at any time.
SingleFlightAcrossReload ==
    \A t \in DOMAIN objs :
        SumCopies({p \in BagToSet(pipes) : p.pc \in ExecPcs /\ SameRule(p.t, t)}, pipes) <= 1

====
